---- MODULE Spec2Model ----
(***************************************************************************)
(* CSVModel and CSVTable of src/src/csvwidget/table.ts.                    *)
(*                                                                         *)
(* Text is modelled as a sequence of one-character strings.  A content is  *)
(* a sequence of lines: the text of the lines joined by "\n" (the empty    *)
(* sequence is the empty string).  The inputs hold no quote character, so  *)
(* the parser's quoting rules are never exercised.                         *)
(***************************************************************************)
EXTENDS Integers, Sequences, FiniteSets, TLC

VARIABLES
  content,      \* CSVModel._content
  delimiter,    \* CSVModel._delimiter
  isDisposed,   \* VDomModel.isDisposed
  conn,         \* the observers connected to each signal of the model
  released,     \* history: connections removed by dispose() and not re-made
  op,           \* history: the last operation called
  args,         \* history: the argument of the last operation
  emits,        \* history: the signals the last operation emitted, in order
  ret,          \* history: what the last operation returned
  parseRun,     \* history: parse() calls since the last other operation
  overflowRun   \* history: maxExceeded emissions during those calls

vars == <<content, delimiter, isDisposed, conn, released, op, args, emits, ret,
          parseRun, overflowRun>>

modelVars == <<content, delimiter, isDisposed, conn>>

----------------------------------------------------------------------------
(* Bounds and constants *)

DISPLAY_LIMIT == 1000

MaxRun == 2

Observers == {"o1", "o2"}

Signals == {"stateChanged", "maxExceeded"}

----------------------------------------------------------------------------
(* JavaScript values *)

\* `undefined` where a content string is expected.
Undefined == << <<"undefined">> >>

\* `undefined` where a delimiter string is expected (an option left out).
NoDelimiter == <<"undefined">>

\* `undefined` as the value of a missing cell, row[col].
UndefinedCell == <<"undefined">>

\* `void 0`, the payload of stateChanged.
Void == [void |-> TRUE]

COMMA == <<",">>

SEMI == <<";">>

EMPTY == <<>>

----------------------------------------------------------------------------
(* Inputs *)

DigitChar == <<"0", "1", "2", "3", "4", "5", "6", "7", "8", "9">>

RECURSIVE Digits(_)
Digits(i) ==
  IF i < 10 THEN <<DigitChar[i + 1]>>
  ELSE Digits(i \div 10) \o <<DigitChar[(i % 10) + 1]>>

Header == <<"a", ",", "b">>

\* The i-th data line, "i,x".
RowLine(i) == Digits(i) \o <<",", "x">>

\* "a,b\n1,x\n2,x\n...\nn,x"
MkContent(n) == <<Header>> \o [i \in 1..n |-> RowLine(i)]

\* "a,b\n1,2\n3,4"
Example == <<Header, <<"1", ",", "2">>, <<"3", ",", "4">>>>

\* "a,a\n1\n2,y,z": a repeated column name, a short row and a long row.
Ragged == << <<"a", ",", "a">>, <<"1">>, <<"2", ",", "y", ",", "z">> >>

RowCounts == {DISPLAY_LIMIT, DISPLAY_LIMIT + 1, 2 * DISPLAY_LIMIT + 1}

Contents == {EMPTY, <<Header>>, Example, Ragged} \cup {MkContent(n) : n \in RowCounts}

Delimiters == {COMMA, SEMI, EMPTY}

----------------------------------------------------------------------------
(* d3-dsv: dsvFormat(delimiter).parse(text) *)

\* delimiter.charCodeAt(0) is NaN for the empty string, and NaN equals no
\* character code.
IsDelimiter(c, delim) == delim # EMPTY /\ c = delim[1]

RECURSIVE SplitFrom(_, _, _, _)
SplitFrom(line, delim, i, cur) ==
  IF i > Len(line) THEN <<cur>>
  ELSE IF IsDelimiter(line[i], delim)
       THEN <<cur>> \o SplitFrom(line, delim, i + 1, <<>>)
       ELSE SplitFrom(line, delim, i + 1, Append(cur, line[i]))

\* parseRows: each line's fields.
parseRows(text, delim) == [i \in 1..Len(text) |-> SplitFrom(text[i], delim, 1, <<>>)]

Range(s) == {s[i] : i \in 1..Len(s)}

Last(S) == CHOOSE k \in S : \A j \in S : j <= k

\* objectConverter: {name: d[i], ...}; a repeated name keeps its last index,
\* an index past the end of d reads undefined.
objectConverter(columns, d) ==
  [c \in Range(columns) |->
     LET j == Last({k \in 1..Len(columns) : columns[k] = c})
     IN  IF j <= Len(d) THEN d[j] ELSE UndefinedCell]

\* parse: the first row names the columns, the others become objects;
\* rows.columns stays undefined (hasColumns FALSE) when there is no row.
dsvParse(delim, text) ==
  LET all == parseRows(text, delim)
  IN  IF Len(all) = 0
      THEN [rows |-> <<>>, hasColumns |-> FALSE, columns |-> <<>>]
      ELSE [rows |-> [i \in 1..(Len(all) - 1) |-> objectConverter(all[1], all[i + 1])],
            hasColumns |-> TRUE,
            columns |-> all[1]]

----------------------------------------------------------------------------
(* CSVModel *)

\* Array.prototype.splice(start, deleteCount) with start 0-based: the array
\* that is left in place.
splice(arr, start, deleteCount) ==
  SubSeq(arr, 1, start) \o SubSeq(arr, start + deleteCount + 1, Len(arr))

reaches(n) == n >= DISPLAY_LIMIT

exceeds(n) == n > DISPLAY_LIMIT

\* The body of parse() on a defined content: the returned array and the
\* IOverflow values emitted on the way.
parseOutput(text, delim) ==
  LET output == dsvParse(delim, text)
  IN  IF exceeds(Len(output.rows))
      THEN LET left == splice(output.rows, 0, DISPLAY_LIMIT)
           IN  [rows |-> left, hasColumns |-> output.hasColumns,
                columns |-> output.columns,
                overflow |-> <<[available |-> Len(left), maximum |-> DISPLAY_LIMIT]>>]
      ELSE [rows |-> output.rows, hasColumns |-> output.hasColumns,
            columns |-> output.columns, overflow |-> <<>>]

\* signal.emit(payload): delivered, in line, to the observers connected now.
Emit(signal, payload) == [signal |-> signal, args |-> payload, to |-> conn[signal]]

NoReturn == [kind |-> "void"]

Threw == [kind |-> "throw"]

\* new CSVModel(options): the field initialisers run, then the constructor's
\* body; an option left out reads undefined.
InitOn(CS, DS) ==
  /\ \E c \in CS \cup {Undefined}, d \in DS \cup {NoDelimiter} :
       /\ content = c
       /\ delimiter = IF d = NoDelimiter \/ d = EMPTY THEN COMMA ELSE d
       /\ args = [content |-> c, delimiter |-> d]
  /\ isDisposed = FALSE
  /\ conn = [s \in Signals |-> {}]
  /\ released = [s \in Signals |-> {}]
  /\ op = "new"
  /\ emits = <<>>
  /\ ret = NoReturn
  /\ parseRun = 0
  /\ overflowRun = 0

Init == InitOn(Contents, Delimiters)

\* signal.connect(observer): the host subscribes an observer.
connect(s, o) ==
  /\ conn' = [conn EXCEPT ![s] = @ \cup {o}]
  /\ released' = [released EXCEPT ![s] = @ \ {o}]
  /\ op' = "connect"
  /\ args' = <<s, o>>
  /\ emits' = <<>>
  /\ ret' = NoReturn
  /\ parseRun' = 0
  /\ overflowRun' = 0
  /\ UNCHANGED <<content, delimiter, isDisposed>>

\* A setter without the equality guard.
set_content_unguarded(c) ==
  /\ content' = c
  /\ emits' = <<Emit("stateChanged", Void)>>
  /\ op' = "set content"
  /\ args' = c
  /\ ret' = NoReturn
  /\ parseRun' = 0
  /\ overflowRun' = 0
  /\ UNCHANGED <<delimiter, isDisposed, conn, released>>

set_content(c) ==
  /\ IF content = c
     THEN /\ emits' = <<>>
          /\ UNCHANGED content
     ELSE /\ content' = c
          /\ emits' = <<Emit("stateChanged", Void)>>
  /\ op' = "set content"
  /\ args' = c
  /\ ret' = NoReturn
  /\ parseRun' = 0
  /\ overflowRun' = 0
  /\ UNCHANGED <<delimiter, isDisposed, conn, released>>

set_delimiter(d) ==
  /\ IF delimiter = d
     THEN /\ emits' = <<>>
          /\ UNCHANGED delimiter
     ELSE /\ delimiter' = d
          /\ emits' = <<Emit("stateChanged", Void)>>
  /\ op' = "set delimiter"
  /\ args' = d
  /\ ret' = NoReturn
  /\ parseRun' = 0
  /\ overflowRun' = 0
  /\ UNCHANGED <<content, isDisposed, conn, released>>

\* VDomModel.dispose(), called as super.dispose(): marks the model disposed.
superDispose == isDisposed' = TRUE

\* clearSignalData(this): every connection of the model's signals is removed.
clearSignalData ==
  /\ conn' = [s \in Signals |-> {}]
  /\ released' = [s \in Signals |-> released[s] \cup conn[s]]

\* A dispose() that marks the model disposed and leaves the connections.
dispose_keeping ==
  /\ IF isDisposed
     THEN UNCHANGED <<isDisposed, conn, released>>
     ELSE /\ superDispose
          /\ released' = [s \in Signals |-> released[s] \cup conn[s]]
          /\ UNCHANGED conn
  /\ op' = "dispose"
  /\ args' = <<>>
  /\ emits' = <<>>
  /\ ret' = NoReturn
  /\ parseRun' = 0
  /\ overflowRun' = 0
  /\ UNCHANGED <<content, delimiter>>

dispose ==
  /\ IF isDisposed
     THEN UNCHANGED <<isDisposed, conn, released>>
     ELSE /\ superDispose
          /\ clearSignalData
  /\ op' = "dispose"
  /\ args' = <<>>
  /\ emits' = <<>>
  /\ ret' = NoReturn
  /\ parseRun' = 0
  /\ overflowRun' = 0
  /\ UNCHANGED <<content, delimiter>>

parsed(out) ==
  [kind |-> "rows", rows |-> out.rows, hasColumns |-> out.hasColumns,
   columns |-> out.columns]

\* h.<tag>(children)
h(tag, children) == [tag |-> tag, children |-> children]

\* The virtual DOM render() builds from the array parse() returned.
table(rows) ==
  LET cols == IF rows.hasColumns THEN rows.columns ELSE <<>>
  IN  h("table",
        << h("thead", [j \in 1..Len(cols) |-> h("th", cols[j])]),
           h("tbody", [i \in 1..Len(rows.rows) |->
                         h("tr", [j \in 1..Len(cols) |->
                                    h("td", rows.rows[i][cols[j]])])]) >>)

rendered(out) == [kind |-> "vnode", vnode |-> table(out)]

\* The state a call of parse() leaves, made directly or by render(), which
\* returns the tree built from the result; d3-dsv throws a TypeError on an
\* undefined text, before anything is emitted.
callParse(fromRender) ==
  /\ parseRun' = parseRun + 1
  /\ IF content = Undefined
     THEN /\ ret' = Threw
          /\ emits' = <<>>
          /\ UNCHANGED overflowRun
     ELSE LET out == parseOutput(content, delimiter)
          IN  /\ emits' = [i \in 1..Len(out.overflow) |->
                             Emit("maxExceeded", out.overflow[i])]
              /\ overflowRun' = overflowRun + Len(out.overflow)
              /\ ret' = IF fromRender THEN rendered(out) ELSE parsed(out)
  /\ UNCHANGED <<content, delimiter, isDisposed, conn, released>>

\* A parse() that remembers it has already reported this content.
parse_cached ==
  /\ parseRun < MaxRun
  /\ op' = "parse"
  /\ args' = <<>>
  /\ parseRun' = parseRun + 1
  /\ IF content = Undefined
     THEN /\ ret' = Threw
          /\ emits' = <<>>
          /\ UNCHANGED overflowRun
     ELSE LET out == parseOutput(content, delimiter)
              n == IF parseRun = 0 THEN Len(out.overflow) ELSE 0
          IN  /\ emits' = [i \in 1..n |-> Emit("maxExceeded", out.overflow[i])]
              /\ overflowRun' = overflowRun + n
              /\ ret' = parsed(out)
  /\ UNCHANGED <<content, delimiter, isDisposed, conn, released>>

\* A parse() that reports the overflow on the wrong signal.
parse_stateChanged ==
  /\ parseRun < MaxRun
  /\ op' = "parse"
  /\ args' = <<>>
  /\ parseRun' = parseRun + 1
  /\ IF content = Undefined
     THEN /\ ret' = Threw
          /\ emits' = <<>>
          /\ UNCHANGED overflowRun
     ELSE LET out == parseOutput(content, delimiter)
          IN  /\ emits' = [i \in 1..Len(out.overflow) |->
                             Emit("stateChanged", out.overflow[i])]
              /\ overflowRun' = overflowRun + Len(out.overflow)
              /\ ret' = parsed(out)
  /\ UNCHANGED <<content, delimiter, isDisposed, conn, released>>

parse ==
  /\ parseRun < MaxRun
  /\ op' = "parse"
  /\ args' = <<>>
  /\ callParse(FALSE)

render ==
  /\ parseRun < MaxRun
  /\ op' = "render"
  /\ args' = <<>>
  /\ callParse(TRUE)

\* What the host may do next, with its inputs drawn from the given sets.
NextOn(CS, DS, SS, OS) ==
  \/ \E s \in SS, o \in OS : connect(s, o)
  \/ \E c \in CS : set_content(c)
  \/ \E d \in DS : set_delimiter(d)
  \/ dispose
  \/ parse
  \/ render

Next == NextOn(Contents, Delimiters, {"maxExceeded"}, {"o1"})

Spec == Init /\ [][Next]_vars

\* The same model with every signal observed, on the short contents and the
\* shortest content that overflows.
ObservedContents == {EMPTY, Example, MkContent(DISPLAY_LIMIT + 1)}

InitObserved == InitOn(ObservedContents, Delimiters)

NextObserved == NextOn(ObservedContents, Delimiters, Signals, {"o1"})

SpecObserved == InitObserved /\ [][NextObserved]_vars

----------------------------------------------------------------------------
(* Properties *)

\* The data rows of the current content before any truncation.
sourceRows == dsvParse(delimiter, content).rows

Returned == op = "parse" /\ ret.kind = "rows"

C2_NoticeCarriesSourceCount ==
  \A i \in 1..Len(emits) :
    emits[i].signal = "maxExceeded"
      => /\ emits[i].args.available = Len(sourceRows)
         /\ emits[i].args.maximum = DISPLAY_LIMIT

\* C3: parse() never returns more than 1000 rows.
C3_AtMostDisplayLimit == Returned => Len(ret.rows) <= DISPLAY_LIMIT

\* C4: with at most 1000 data rows parse() returns them all and emits
\* nothing; it emits an overflow notice only above 1000 rows.
C4_WithinLimitUntouched ==
  Returned =>
    /\ Len(sourceRows) <= DISPLAY_LIMIT => (ret.rows = sourceRows /\ emits = <<>>)
    /\ emits # <<>> => Len(sourceRows) > DISPLAY_LIMIT

\* C4 witness: parse() returned the rows of a content of exactly 1000 rows.
C4_Witness ==
  Returned /\ Len(sourceRows) = DISPLAY_LIMIT /\ Len(ret.rows) = DISPLAY_LIMIT
    /\ emits = <<>>

\* What a setter call must do, given the field before and after it.
SetterContract(before, after) ==
  IF args' = before
  THEN emits' = <<>> /\ UNCHANGED modelVars
  ELSE /\ after = args'
       /\ Len(emits') = 1
       /\ emits'[1].signal = "stateChanged"
       /\ emits'[1].args = Void
       /\ emits'[1].to = conn["stateChanged"]

\* C5: assigning content or delimiter its current value emits nothing and
\* changes nothing; assigning another value stores it and emits stateChanged
\* exactly once.
C5_SetterNotifiesOnChange ==
  [][ /\ op' = "set content" => SetterContract(content, content')
      /\ op' = "set delimiter" => SetterContract(delimiter, delimiter') ]_vars

\* C5 witness: an observed model was assigned the delimiter it already had,
\* after an assignment that changed its content.
C5_Witness ==
  /\ op = "set delimiter"
  /\ emits = <<>>
  /\ conn["stateChanged"] # {}
  /\ content = Example

\* C6: the first dispose() marks the model disposed and removes every
\* observer of both signals, a later dispose() changes nothing, neither
\* throws, and no later emission reaches an observer that dispose() removed.
C6_DisposeReleasesObservers ==
  [][ /\ op' = "dispose" =>
           /\ ret' = NoReturn
           /\ IF isDisposed
              THEN UNCHANGED modelVars
              ELSE isDisposed' /\ \A s \in Signals : conn'[s] = {}
      /\ \A i \in 1..Len(emits') :
           emits'[i].to \cap released'[emits'[i].signal] = {} ]_vars

\* C6 witness: after disposal took away an observer of each signal, parse()
\* emitted an overflow notice.
C6_Witness ==
  /\ isDisposed
  /\ \A s \in Signals : released[s] # {}
  /\ op = "parse"
  /\ Len(emits) = 1

\* C7: a new model has content "" when none is given and delimiter ","
\* when none or "" is given, and the delimiter never is "".
C7_Defaults ==
  /\ op = "new" =>
       /\ args.content = Undefined => content = EMPTY
       /\ args.delimiter \in {NoDelimiter, EMPTY} => delimiter = COMMA
  /\ delimiter # EMPTY

\* C8: each of any number of consecutive parse() calls on an unchanged
\* oversized content emits exactly one overflow notice before it returns,
\* and returns what the call before it returned.
C8_EveryCallRenotifies ==
  [][ (op' = "parse" /\ ret'.kind = "rows" /\ Len(sourceRows) > DISPLAY_LIMIT) =>
        /\ Len(emits') = 1
        /\ emits'[1].signal = "maxExceeded"
        /\ overflowRun' = overflowRun + 1
        /\ overflowRun' = parseRun'
        /\ op = "parse" => ret' = ret ]_vars

\* C8 witness: parse() was called MaxRun times in a row on an oversized
\* content and MaxRun notices were emitted.
C8_Witness ==
  /\ op = "parse"
  /\ parseRun = MaxRun
  /\ parseRun > 1
  /\ overflowRun = MaxRun
  /\ Len(emits) = 1

\* C9: render() builds a header of the column names parse() returns, in
\* order, and one body row per returned row with that row's value per
\* column; the body has at most 1000 rows.
C9_RenderMirrorsParse ==
  (op = "render" /\ ret.kind = "vnode") =>
    LET out == parseOutput(content, delimiter)
        cols == IF out.hasColumns THEN out.columns ELSE <<>>
        head == ret.vnode.children[1]
        body == ret.vnode.children[2]
    IN  /\ Len(head.children) = Len(cols)
        /\ \A j \in 1..Len(cols) : head.children[j] = h("th", cols[j])
        /\ Len(body.children) = Len(out.rows)
        /\ \A i \in 1..Len(out.rows) :
             /\ Len(body.children[i].children) = Len(cols)
             /\ \A j \in 1..Len(cols) :
                  body.children[i].children[j] = h("td", out.rows[i][cols[j]])
        /\ Len(body.children) <= DISPLAY_LIMIT

\* C10: parse() and render() leave content, delimiter and the disposed flag
\* as they were and never emit stateChanged; only the setters emit it.
C10_ParseLeavesModel ==
  [][ /\ op' \in {"parse", "render"} =>
           /\ UNCHANGED <<content, delimiter, isDisposed>>
           /\ \A i \in 1..Len(emits') : emits'[i].signal # "stateChanged"
      /\ (\E i \in 1..Len(emits') : emits'[i].signal = "stateChanged")
           => op' \in {"set content", "set delimiter"} ]_vars

\* C10 witness: parse() truncated and emitted its notice.
C10_Witness ==
  /\ op = "parse"
  /\ Len(emits) = 1
  /\ content = MkContent(2 * DISPLAY_LIMIT + 1)
  /\ Len(ret.rows) = DISPLAY_LIMIT + 1

====
